---- MODULE Spec2Model ----
(***************************************************************************)
(* Event_Room_Scheduler: the timetable text parser (parsePdf) and the      *)
(* SQLite store behind the HTTP handlers of server.js.                     *)
(*                                                                         *)
(* server.js holds three revisions of the server one after the other:      *)
(*   revision 1: lines   1-275  (parsePdf splitting a day row into cells)  *)
(*   revision 2: lines 277-606  (parsePdf with saveSection and dayLines)   *)
(*   revision 3: lines 608-910  (POST /api/timetables, parseTimetableText) *)
(* Definitions ending in 1, 2 or 3 model the code of that revision; a      *)
(* definition without a digit models code that is the same in the          *)
(* revisions that have it.                                                 *)
(*                                                                         *)
(* Text is modelled at the level of tokens: a line is the sequence of its  *)
(* whitespace-separated tokens, with the token GAP standing for a run of   *)
(* two or more blanks (revision 1 splits cells on such runs). A string     *)
(* captured by a regular expression is the sequence of tokens it spans.    *)
(***************************************************************************)
EXTENDS Integers, Sequences, FiniteSets, TLC

VARIABLES
    rev,        \* which revision of server.js runs; fixed by Init
    pc,         \* "loop": top of the for loop, "scan": in the continuation
                \* while loop, "done": parsePdf has returned
    p,          \* parsePdf's locals (department, yearSem, ..., sections)
    line,       \* const line = lines[i] of the latest main-loop iteration
    pending,    \* lines[i+1] when the continuation scan has looked at it
                \* without consuming it, EOF when it found the end of input
    rooms_tbl,  \* table rooms
    timetables, \* table timetables
    schedules,  \* table schedules
    seq,        \* sqlite_sequence: the last AUTOINCREMENT id of each table
    request,    \* the latest HTTP request
    response,   \* the response to it
    returned    \* the calls of parsePdf made one after the other by a caller:
                \* the text and the Section list returned, call by call

vars ==
    <<rev, pc, p, line, pending, rooms_tbl, timetables, schedules, seq, request,
      response, returned>>
parserVars == <<rev, pc, p, line, pending>>
storeVars == <<rooms_tbl, timetables, schedules, seq, request, response>>

-----------------------------------------------------------------------------
(* Bounds *)

\* lines of one input text
MaxLines == 6

-----------------------------------------------------------------------------
(* Tokens *)

GAP == "  "
NoLine == <<>>
EOF == <<"<EOF>">>

\* String.prototype.toUpperCase on the tokens of the vocabulary
toUpperCase(t) ==
    CASE t = "tue" -> "TUE"
      [] t = "Room" -> "ROOM"
      [] t = "No:" -> "NO:"
      [] t = "Theory" -> "THEORY"
      [] t = "Laboratory" -> "LABORATORY"
      [] t = "break" -> "BREAK"
      [] OTHER -> t

\* line.split(/\s+/).filter(Boolean): the tokens without the blank runs
Words(l) == SelectSeq(l, LAMBDA t : t # GAP)

\* \w+ : the tokens made of word characters only
NonWordTokens ==
    {GAP, "(R.No.605)", "(R.No.802)", "[SECTION-A1]", "[SECTION-B2]", "No:",
     "09.00", "HEAD,", "|", "<EOF>"}
IsWord(t) == t \notin NonWordTokens

\* \(R\.No[.:]\s*(\d+\w*)\) : the room number of a room reference token, "" if
\* the token is no room reference
RNo(t) ==
    CASE t = "(R.No.605)" -> "605"
      [] t = "(R.No.802)" -> "802"
      [] OTHER -> ""
IsRoomRef(t) == RNo(t) # ""

\* (\d+\w*) after "Room No:" : the tokens that start with digits
RoomDigits(t) == IF t \in {"322", "328"} THEN t ELSE ""

\* \[SECTION[-\s]*(\w+)\] : the section name of a section tag token
SectionTag(t) ==
    CASE t = "[SECTION-A1]" -> "A1"
      [] t = "[SECTION-B2]" -> "B2"
      [] OTHER -> ""

-----------------------------------------------------------------------------
(* Constants of parsePdf *)

timeSlots ==
    <<"09:00-09:55", "09:55-10:50", "11:10-12:05",
      "12:05-01:00", "02:15-03:10", "03:10-04:05">>

dayMap ==
    [MON |-> "Monday", TUE |-> "Tuesday", WED |-> "Wednesday",
     THU |-> "Thursday", FRI |-> "Friday", SAT |-> "Saturday"]

skipWords ==
    {"B", "R", "E", "A", "K", "L", "U", "N", "C", "H",
     "BREAK", "LUNCH", "HOUR", "TO", "AM", "PM"}

-----------------------------------------------------------------------------
(* Line patterns *)

Min(S) == CHOOSE x \in S : \A y \in S : x <= y

\* /DEPARTMENT\s+OF\s+(.+)/i : the positions (in Words(l)) where it matches
deptPositions(l) ==
    LET w == Words(l)
    IN  {k \in 1..Len(w) :
            /\ k + 2 <= Len(w)
            /\ toUpperCase(w[k]) = "DEPARTMENT"
            /\ toUpperCase(w[k + 1]) = "OF"}
deptMatch(l) == deptPositions(l) # {}
\* deptMatch[1].trim()
deptName(l) ==
    LET w == Words(l)
    IN  SubSeq(w, Min(deptPositions(l)) + 2, Len(w))

\* /(\w+)\s+SEMESTER\s*\[SECTION[-\s]*(\w+)\]/i
semPositions(l) ==
    LET w == Words(l)
    IN  {k \in 1..Len(w) :
            /\ k + 2 <= Len(w)
            /\ IsWord(w[k])
            /\ toUpperCase(w[k + 1]) = "SEMESTER"
            /\ SectionTag(w[k + 2]) # ""}
semMatch(l) == semPositions(l) # {}
\* semMatch[1].trim() + ' Semester'
semYear(l) == <<Words(l)[Min(semPositions(l))], "Semester">>
\* semMatch[2].trim()
semSection(l) == SectionTag(Words(l)[Min(semPositions(l)) + 2])

\* /Room\s*No[.:]\s*(\d+\w*)/i
roomPositions(l) ==
    LET w == Words(l)
    IN  {k \in 1..Len(w) :
            /\ k + 2 <= Len(w)
            /\ toUpperCase(w[k]) = "ROOM"
            /\ toUpperCase(w[k + 1]) = "NO:"
            /\ RoomDigits(w[k + 2]) # ""}
roomHeaderMatch(l) == roomPositions(l) # {}
roomHeaderNo(l) == RoomDigits(Words(l)[Min(roomPositions(l)) + 2])

\* /^(MON|TUE|WED|THU|FRI|SAT)\b/i
dayMatch(l) == Len(l) > 0 /\ toUpperCase(l[1]) \in DOMAIN dayMap
\* dayMap[dayMatch[1].toUpperCase()]
dayOf(l) == dayMap[toUpperCase(l[1])]
\* line.substring(dayMatch[0].length).trim()
RECURSIVE trimStart(_)
trimStart(l) == IF l # <<>> /\ l[1] = GAP THEN trimStart(Tail(l)) ELSE l
restOfLine(l) == trimStart(Tail(l))

\* /^\d{2}\.\d{2}\s*(AM|PM)/i
timeStampMatch(l) ==
    /\ Len(Words(l)) >= 2
    /\ l[1] = "09.00"
    /\ toUpperCase(Words(l)[2]) \in {"AM", "PM"}

\* /^(HOUR|HEAD,|Theory|Laboratory|ACADEMIC|SCHOOL|TIME-TABLE|w\.e\.f)/i
nonContentStart(l) ==
    /\ Len(l) > 0
    /\ toUpperCase(l[1]) \in
         {"HOUR", "HEAD,", "THEORY", "LABORATORY", "ACADEMIC", "SCHOOL",
          "TIME-TABLE", "W.E.F"}

\* skipWords.has(line.toUpperCase())
isSkipWord(l) == Len(l) = 1 /\ toUpperCase(l[1]) \in skipWords

\* /Room\s*No/i anywhere in the line
roomNoAnywhere(l) ==
    LET w == Words(l)
    IN  \E k \in 1..Len(w) :
            /\ k + 1 <= Len(w)
            /\ toUpperCase(w[k]) = "ROOM"
            /\ toUpperCase(w[k + 1]) = "NO:"

hasToken(l, S) == \E k \in 1..Len(l) : toUpperCase(l[k]) \in S

\* the three break tests of revision 2's continuation scan (lines 516-518)
terminator2(l) ==
    \/ dayMatch(l)
    \/ hasToken(l, {"DEPARTMENT", "SEMESTER", "HOUR", "HEAD,", "THEORY",
                    "LABORATORY", "ACADEMIC", "SCHOOL"})
    \/ roomNoAnywhere(l)
    \/ timeStampMatch(l)

\* the three break tests of revision 1's continuation scan (lines 232-234)
terminator1(l) ==
    \/ dayMatch(l)
    \/ hasToken(l, {"DEPARTMENT", "SEMESTER", "HOUR", "HEAD,", "THEORY",
                    "LABORATORY", "ACADEMIC"})
    \/ roomNoAnywhere(l)
    \/ timeStampMatch(l)

-----------------------------------------------------------------------------
(* parsePdf: helpers *)

\* Set.prototype.add, the set kept in insertion order (Array.from(rooms))
setAdd(s, x) == IF \E k \in 1..Len(s) : s[k] = x THEN s ELSE Append(s, x)

\* the object pushed to sections
sectionOf(q) ==
    [department |-> q.department, year_sem |-> q.yearSem, section |-> q.section,
     default_room |-> q.defaultRoom, rooms |-> q.rooms, entries |-> q.entries]

\* the locals of parsePdf before the loop; day, dayLines (revision 2) and
\* fullLine (revision 1) are declared in the loop body and hold a value only
\* while a day row is being read
initLocals ==
    [department |-> <<>>, yearSem |-> <<>>, section |-> "", defaultRoom |-> "",
     rooms |-> <<>>, entries |-> <<>>, inSection |-> FALSE, sections |-> <<>>,
     i |-> 0, day |-> "", dayLines |-> <<>>, fullLine |-> <<>>]

-----------------------------------------------------------------------------
(* parsePdf, revision 2 (lines 440-598) *)

\* saveSection without the test of entries.length
saveSection_AnyEntries(q) ==
    [q EXCEPT
       !.sections = IF q.inSection THEN Append(@, sectionOf(q)) ELSE @,
       !.entries = <<>>]

saveSection(q) ==
    [q EXCEPT
       !.sections = IF q.inSection /\ Len(q.entries) > 0
                    THEN Append(@, sectionOf(q)) ELSE @,
       !.entries = <<>>]

deptHeader2(q, l) ==
    [saveSection(q) EXCEPT
       !.department = deptName(l), !.rooms = <<>>, !.inSection = FALSE]

\* the semester header also clearing the default room
semHeader2_ResetsRoom(q, l) ==
    [saveSection(q) EXCEPT
       !.yearSem = semYear(l), !.section = semSection(l), !.inSection = TRUE,
       !.defaultRoom = ""]

semHeader2(q, l) ==
    [saveSection(q) EXCEPT
       !.yearSem = semYear(l), !.section = semSection(l), !.inSection = TRUE]

roomHeader(q, l) ==
    [q EXCEPT
       !.defaultRoom = roomHeaderNo(l), !.rooms = setAdd(@, roomHeaderNo(l))]

\* the three "skip non-content lines" tests (lines 498-500)
nonContent2(l) == nonContentStart(l) \/ timeStampMatch(l) \/ isSkipWord(l)

\* lines 506-511: the day and the rest of the day line
dayStart2(q, l) ==
    [q EXCEPT
       !.day = dayOf(l),
       !.dayLines = IF restOfLine(l) # <<>> THEN <<restOfLine(l)>> ELSE <<>>]

\* lines 519-521: one iteration of the continuation scan that consumes next
scanNext2(q, next) ==
    IF isSkipWord(next)
    THEN [q EXCEPT !.i = @ + 1]
    ELSE [q EXCEPT !.i = @ + 1, !.dayLines = Append(@, next)]

\* /^\(R\.No[.:]\s*(\d+\w*)\)$/i
pureRoomMatch(dl) == Len(dl) = 1 /\ IsRoomRef(dl[1])

\* /^(.+?)\s*\(R\.No[.:]\s*(\d+\w*)\)(.*)$/i : the room references that have
\* at least one character before them; the lazy group stops at the first
inlineRoomPositions(dl) == {k \in 2..Len(dl) : IsRoomRef(dl[k])}
inlineRoomMatch(dl) == inlineRoomPositions(dl) # {}

\* /^(\w+)\s+LAB$/i
labMatch(dl) ==
    LET w == Words(dl)
    IN  Len(w) = 2 /\ IsWord(w[1]) /\ toUpperCase(w[2]) = "LAB"

\* { subject: s, room: r } for each token of toks
slotsOf(toks, r) == [k \in 1..Len(toks) |-> [subject |-> <<toks[k]>>, room |-> r]]

\* the day line loop without the pure room branch: a room-only line falls
\* through to the plain subjects and becomes a slot entry
dayLine2_NoPureRoom(acc, dl, defaultRoom) ==
    IF inlineRoomMatch(dl) THEN
        LET k == Min(inlineRoomPositions(dl))
            beforeSubjects == Words(SubSeq(dl, 1, k - 1))
            roomNum == RNo(dl[k])
            afterSubjects == Words(SubSeq(dl, k + 1, Len(dl)))
            n == Len(beforeSubjects)
        IN  [slotEntries |->
                acc.slotEntries
                \o slotsOf(SubSeq(beforeSubjects, 1, n - 1), defaultRoom)
                \o <<[subject |-> <<beforeSubjects[n]>>, room |-> roomNum]>>
                \o slotsOf(afterSubjects, defaultRoom),
             rooms |-> setAdd(acc.rooms, roomNum)]
    ELSE IF labMatch(dl) THEN
        [acc EXCEPT
           !.slotEntries = Append(@, [subject |-> dl, room |-> defaultRoom])]
    ELSE
        [acc EXCEPT !.slotEntries = @ \o slotsOf(Words(dl), defaultRoom)]

\* lines 533-582 for one day line dl: the slot entries and the rooms after it
dayLine2(acc, dl, defaultRoom) ==
    IF pureRoomMatch(dl) THEN
        IF Len(acc.slotEntries) > 0
        THEN [slotEntries |->
                [acc.slotEntries EXCEPT ![Len(acc.slotEntries)].room = RNo(dl[1])],
              rooms |-> setAdd(acc.rooms, RNo(dl[1]))]
        ELSE acc
    ELSE IF inlineRoomMatch(dl) THEN
        LET k == Min(inlineRoomPositions(dl))
            beforeSubjects == Words(SubSeq(dl, 1, k - 1))
            roomNum == RNo(dl[k])
            afterSubjects == Words(SubSeq(dl, k + 1, Len(dl)))
            n == Len(beforeSubjects)
        IN  [slotEntries |->
                acc.slotEntries
                \o slotsOf(SubSeq(beforeSubjects, 1, n - 1), defaultRoom)
                \o <<[subject |-> <<beforeSubjects[n]>>, room |-> roomNum]>>
                \o slotsOf(afterSubjects, defaultRoom),
             rooms |-> setAdd(acc.rooms, roomNum)]
    ELSE IF labMatch(dl) THEN
        [acc EXCEPT
           !.slotEntries = Append(@, [subject |-> dl, room |-> defaultRoom])]
    ELSE
        [acc EXCEPT !.slotEntries = @ \o slotsOf(Words(dl), defaultRoom)]

RECURSIVE dayLines2(_, _, _)
dayLines2(acc, dls, defaultRoom) ==
    IF dls = <<>> THEN acc
    ELSE dayLines2(dayLine2(acc, Head(dls), defaultRoom), Tail(dls), defaultRoom)

\* the slot entries zipped against the time slots from the last one back
mapSlots_Reversed(day, se) ==
    LET n == IF Len(se) < Len(timeSlots) THEN Len(se) ELSE Len(timeSlots)
    IN  [j \in 1..n |->
            [day |-> day, time_slot |-> timeSlots[n - j + 1],
             room_number |-> se[j].room, subject |-> se[j].subject]]

\* lines 585-592: slot entry j becomes the entry of time slot j
mapSlots(day, se) ==
    LET n == IF Len(se) < Len(timeSlots) THEN Len(se) ELSE Len(timeSlots)
    IN  [j \in 1..n |->
            [day |-> day, time_slot |-> timeSlots[j],
             room_number |-> se[j].room, subject |-> se[j].subject]]

\* lines 531-592: the day's lines have been collected
dayEnd2(q) ==
    LET r == dayLines2([slotEntries |-> <<>>, rooms |-> q.rooms],
                       q.dayLines, q.defaultRoom)
    IN  [q EXCEPT
           !.rooms = r.rooms,
           !.entries = @ \o mapSlots(q.day, r.slotEntries),
           !.day = "", !.dayLines = <<>>]

-----------------------------------------------------------------------------
(* parsePdf, revision 1 (lines 158-267) *)

\* the department header dropping the section in progress without emitting it
deptHeader1_NoFlush(q, l) ==
    [q EXCEPT
       !.department = deptName(l),
       !.entries = <<>>,
       !.rooms = <<>>,
       !.inSection = FALSE]

deptHeader1(q, l) ==
    [q EXCEPT
       !.sections = IF q.inSection /\ Len(q.entries) > 0
                    THEN Append(@, sectionOf(q)) ELSE @,
       !.department = deptName(l),
       !.entries = <<>>,
       !.rooms = <<>>,
       !.inSection = FALSE]

semHeader1(q, l) ==
    [q EXCEPT
       !.sections = IF q.inSection /\ Len(q.entries) > 0
                    THEN Append(@, sectionOf(q)) ELSE @,
       !.entries = IF q.inSection /\ Len(q.entries) > 0 THEN <<>> ELSE @,
       !.yearSem = semYear(l),
       !.section = semSection(l),
       !.inSection = TRUE]

\* lines 215-218: every R.No reference of the line is added to rooms
RECURSIVE altRooms1(_, _)
altRooms1(rooms, l) ==
    IF l = <<>> THEN rooms
    ELSE altRooms1(IF IsRoomRef(Head(l)) THEN setAdd(rooms, RNo(Head(l))) ELSE rooms,
                   Tail(l))

\* lines 224-228
dayStart1(q, l) ==
    [q EXCEPT
       !.rooms = altRooms1(@, l),
       !.day = dayOf(l),
       !.fullLine = restOfLine(l)]

\* lines 236-237: fullLine += ' ' + next
scanNext1(q, next) ==
    [q EXCEPT !.i = @ + 1, !.fullLine = @ \o next]

\* fullLine.split(/\s{2,}/).map(c => c.trim()).filter(Boolean)
RECURSIVE splitCells(_, _)
splitCells(l, cell) ==
    IF l = <<>> THEN (IF cell = <<>> THEN <<>> ELSE <<cell>>)
    ELSE IF Head(l) = GAP
         THEN (IF cell = <<>> THEN <<>> ELSE <<cell>>) \o splitCells(Tail(l), <<>>)
         ELSE splitCells(Tail(l), Append(cell, Head(l)))

\* /^[BREAK|LUNCH|B|R|E|A|K|L|U|N|C|H]$/i.test(cell) && cell.length <= 5 :
\* the pattern is a character class, it matches one character
breakCell1(cell) ==
    /\ Len(cell) = 1
    /\ toUpperCase(cell[1]) \in {"B", "R", "E", "A", "K", "|", "L", "U", "N", "C", "H"}

\* cell.match(/\(R\.No[.:]\s*(\d+\w*)\)/i)
altRoomPositions(cell) == {k \in 1..Len(cell) : IsRoomRef(cell[k])}
\* cell.replace(/\(R\.No[.:]\s*\d+\w*\)/i, '').trim()
cellSubject(cell) ==
    IF altRoomPositions(cell) = {} THEN cell
    ELSE LET k == Min(altRoomPositions(cell))
         IN  SubSeq(cell, 1, k - 1) \o SubSeq(cell, k + 1, Len(cell))
cellRoom(cell, defaultRoom) ==
    IF altRoomPositions(cell) = {} THEN defaultRoom
    ELSE RNo(cell[Min(altRoomPositions(cell))])

\* lines 244-258: the loop over the cells
RECURSIVE cells1(_, _, _, _, _)
cells1(entries, cells, slotIndex, day, defaultRoom) ==
    IF cells = <<>> \/ slotIndex >= Len(timeSlots) THEN entries
    ELSE IF breakCell1(Head(cells))
         THEN cells1(entries, Tail(cells), slotIndex, day, defaultRoom)
         ELSE cells1(
                IF cellSubject(Head(cells)) # <<>>
                THEN Append(entries,
                        [day |-> day, time_slot |-> timeSlots[slotIndex + 1],
                         room_number |-> cellRoom(Head(cells), defaultRoom),
                         subject |-> cellSubject(Head(cells))])
                ELSE entries,
                Tail(cells), slotIndex + 1, day, defaultRoom)

\* lines 240-258: the day's lines have been collected
dayEnd1(q) ==
    [q EXCEPT
       !.entries = cells1(@, splitCells(q.fullLine, <<>>), 0, q.day, q.defaultRoom),
       !.day = "", !.fullLine = <<>>]

\* lines 261-264: save last section
saveLast1(q) ==
    [q EXCEPT
       !.sections = IF q.inSection /\ Len(q.entries) > 0
                    THEN Append(@, sectionOf(q)) ELSE @]

-----------------------------------------------------------------------------
(* parsePdf: one iteration of the for loop (lines 175-259 and 466-593) *)

\* which branch of the loop body takes the line
lineKind(r, q, l) ==
    IF deptMatch(l) THEN "dept"
    ELSE IF semMatch(l) THEN "sem"
    ELSE IF roomHeaderMatch(l) THEN "room"
    ELSE IF r = 2 /\ nonContent2(l) THEN "skip"
    ELSE IF ~dayMatch(l) \/ q.defaultRoom = "" THEN "other"
    ELSE "day"

\* the loop body up to its continue, or up to the continuation scan
loopBody(r, q, l) ==
    LET k == lineKind(r, q, l)
    IN  CASE k = "dept" -> IF r = 1 THEN deptHeader1(q, l) ELSE deptHeader2(q, l)
          [] k = "sem" -> IF r = 1 THEN semHeader1(q, l) ELSE semHeader2(q, l)
          [] k = "room" -> roomHeader(q, l)
          [] k = "skip" -> q
          [] k = "other" -> IF r = 1 THEN [q EXCEPT !.rooms = altRooms1(@, l)] ELSE q
          [] k = "day" -> IF r = 1 THEN dayStart1(q, l) ELSE dayStart2(q, l)

\* the for statement without its i++
forNext_Stay(q) == q

\* the for statement's i++
forNext(q) == [q EXCEPT !.i = @ + 1]

terminator(r, l) == IF r = 1 THEN terminator1(l) ELSE terminator2(l)
scanNext(r, q, next) == IF r = 1 THEN scanNext1(q, next) ELSE scanNext2(q, next)
dayEnd(r, q) == IF r = 1 THEN dayEnd1(q) ELSE dayEnd2(q)
\* after the loop: save the last section
saveLast(r, q) == IF r = 1 THEN saveLast1(q) ELSE saveSection(q)

\* parsePdf(text): the loop run to the end of lines; lines[i] of the code is
\* lines[q.i + 1] here
RECURSIVE parseLoop(_, _, _), parseScan(_, _, _)
parseLoop(r, q, lines) ==
    IF q.i >= Len(lines) THEN saveLast(r, q)
    ELSE LET l == lines[q.i + 1]
         IN  IF lineKind(r, q, l) = "day"
             THEN parseScan(r, loopBody(r, q, l), lines)
             ELSE parseLoop(r, forNext(loopBody(r, q, l)), lines)
parseScan(r, q, lines) ==
    IF q.i + 1 < Len(lines) /\ ~terminator(r, lines[q.i + 2])
    THEN parseScan(r, scanNext(r, q, lines[q.i + 2]), lines)
    ELSE parseLoop(r, forNext(dayEnd(r, q)), lines)
\* parsePdf with defaultRoom declared outside the function: a call starts with
\* the default room the call before it ended with
parsePdf_SharedRoom(r, text) ==
    parseLoop(r, [initLocals EXCEPT !.defaultRoom = p.defaultRoom], text).sections

parsePdf(r, text) == parseLoop(r, initLocals, text).sections

-----------------------------------------------------------------------------
(* The input texts: every sequence of at most MaxLines of these lines *)

LineSet ==
    { <<"DEPARTMENT", "OF", "CSE">>,
      <<"DEPARTMENT", "OF", "ECE">>,
      <<"IV", "SEMESTER", "[SECTION-A1]">>,
      <<"VI", "SEMESTER", "[SECTION-B2]">>,
      <<"Room", "No:", "322">>,
      <<"Room", "No:", "328">>,
      <<"HOUR">>,
      <<"TIME-TABLE">>,
      <<"BREAK">>,
      <<"MON">>,
      <<"tue", "CP", GAP, "B", GAP, "CN", "(R.No.605)">>,
      <<"SAT", "NSS", GAP, "NSS", GAP, "NSS", GAP, "NSS", GAP, "NSS", GAP,
        "NSS", GAP, "NSS">>,
      <<"(R.No.605)">>,
      <<"DSP", "LAB">>,
      <<"QAVA", "(R.No.802)", "SE", "(R.No.605)">> }

-----------------------------------------------------------------------------
(* parsePdf as a state machine; the text is read as the parser asks for it *)

ParserInit ==
    /\ rev \in {1, 2}
    /\ pc = "loop"
    /\ p = initLocals
    /\ line = NoLine
    /\ pending = NoLine

StoreIdle == UNCHANGED <<storeVars, returned>>

\* the lines lines[i] can be: the one the scan has looked at, or any
NextLines == IF pending = NoLine THEN LineSet ELSE {pending} \ {EOF}

\* one iteration of the for loop on line l, of kind k, that is no day row
LoopLine(k, l) ==
    /\ pc = "loop"
    /\ p.i < MaxLines
    /\ lineKind(rev, p, l) = k
    /\ line' = l
    /\ p' = forNext(loopBody(rev, p, l))
    /\ pending' = NoLine
    /\ UNCHANGED <<rev, pc>>
    /\ StoreIdle

DeptHeader == \E l \in NextLines : LoopLine("dept", l)
SemHeader == \E l \in NextLines : LoopLine("sem", l)
RoomHeader == \E l \in NextLines : LoopLine("room", l)
SkipLine == \E l \in NextLines : LoopLine("skip", l)
OtherLine == \E l \in NextLines : LoopLine("other", l)

\* a day row: the loop body up to the continuation scan
DayRow ==
    /\ pc = "loop"
    /\ p.i < MaxLines
    /\ \E l \in NextLines :
          /\ lineKind(rev, p, l) = "day"
          /\ line' = l
          /\ p' = loopBody(rev, p, l)
    /\ pending' = NoLine
    /\ pc' = "scan"
    /\ UNCHANGED rev
    /\ StoreIdle

\* the scan consumes lines[i + 1]
ScanNext ==
    /\ pc = "scan"
    /\ p.i + 1 < MaxLines
    /\ \E next \in LineSet :
          /\ ~terminator(rev, next)
          /\ p' = scanNext(rev, p, next)
    /\ UNCHANGED <<rev, pc, line, pending>>
    /\ StoreIdle

\* the scan breaks at lines[i + 1], which the next iteration reads
ScanBreak ==
    /\ pc = "scan"
    /\ p.i + 1 < MaxLines
    /\ \E next \in LineSet :
          /\ terminator(rev, next)
          /\ pending' = next
    /\ p' = forNext(dayEnd(rev, p))
    /\ pc' = "loop"
    /\ UNCHANGED <<rev, line>>
    /\ StoreIdle

\* the scan reaches the end of the text
ScanEnd ==
    /\ pc = "scan"
    /\ pending' = EOF
    /\ p' = forNext(dayEnd(rev, p))
    /\ pc' = "loop"
    /\ UNCHANGED <<rev, line>>
    /\ StoreIdle

\* i reaches lines.length: the last section is saved and parsePdf returns
Finish ==
    /\ pc = "loop"
    /\ pending \in {NoLine, EOF}
    /\ p' = saveLast(rev, p)
    /\ pc' = "done"
    /\ UNCHANGED <<rev, line, pending>>
    /\ StoreIdle

StoreInit ==
    /\ rooms_tbl = {}
    /\ timetables = {}
    /\ schedules = {}
    /\ seq = [rooms |-> 0, timetables |-> 0, schedules |-> 0]
    /\ request = [op |-> "none"]
    /\ response = [status |-> 0]
    /\ returned = <<>>

Init == ParserInit /\ StoreInit

Next ==
    \/ DeptHeader
    \/ SemHeader
    \/ RoomHeader
    \/ SkipLine
    \/ OtherLine
    \/ DayRow
    \/ ScanNext
    \/ ScanBreak
    \/ ScanEnd
    \/ Finish

Spec == Init /\ [][Next]_vars

-----------------------------------------------------------------------------
(* Revision 3: parseRoomsPdf (lines 809-833) and parseTimetableText (841-902) *)

\* /(?:Room\s*No[.:]\s*|R\.No[.:]\s*)(\d+\w*)/gi : the room numbers of a line
RECURSIVE roomNos3(_)
roomNos3(w) ==
    IF w = <<>> THEN <<>>
    ELSE IF IsRoomRef(w[1]) THEN <<RNo(w[1])>> \o roomNos3(Tail(w))
    ELSE IF /\ Len(w) >= 3
            /\ toUpperCase(w[1]) = "ROOM"
            /\ toUpperCase(w[2]) = "NO:"
            /\ RoomDigits(w[3]) # ""
         THEN <<RoomDigits(w[3])>> \o roomNos3(SubSeq(w, 4, Len(w)))
    ELSE roomNos3(Tail(w))

\* rooms.set(roomNum, {...}) unless rooms.has(roomNum), for each number of nos
RECURSIVE addRooms3(_, _)
addRooms3(rooms, nos) ==
    IF nos = <<>> THEN rooms
    ELSE addRooms3(
           IF \E k \in 1..Len(rooms) : rooms[k].room_number = Head(nos)
           THEN rooms
           ELSE Append(rooms, [room_number |-> Head(nos), room_type |-> "classroom"]),
           Tail(nos))

\* lines 824-829: a room referred to on a line that mentions a lab is a lab
markLab3(rooms, l) ==
    LET refs == SelectSeq(Words(l), IsRoomRef)
    IN  IF hasToken(l, {"LAB", "LABORATORY"}) /\ refs # <<>>
        THEN [k \in 1..Len(rooms) |->
                IF rooms[k].room_number = RNo(refs[1])
                THEN [rooms[k] EXCEPT !.room_type = "lab"] ELSE rooms[k]]
        ELSE rooms

RECURSIVE roomsLoop3(_, _)
roomsLoop3(rooms, lines) ==
    IF lines = <<>> THEN rooms
    ELSE roomsLoop3(markLab3(addRooms3(rooms, roomNos3(Words(Head(lines)))),
                             Head(lines)),
                    Tail(lines))
parseRoomsPdf(text) == roomsLoop3(<<>>, text)

\* /^(MON|TUE|WED|THU|FRI|SAT|SUN)\b/i
dayMatch3(l) == dayMatch(l) \/ (Len(l) > 0 /\ toUpperCase(l[1]) = "SUN")
dayOf3(l) == IF toUpperCase(l[1]) = "SUN" THEN "Sunday" ELSE dayOf(l)

\* lines 880-882: the cells that are skipped, compared as they are written
breakCell3(cell) ==
    /\ Len(cell) = 1
    /\ cell[1] \in {"B", "R", "E", "A", "K", "L", "U", "N", "C", "H", "BREAK", "LUNCH"}

\* lines 878-898: cell j of the row is the entry of time slot j
RECURSIVE cells3(_, _, _, _, _)
cells3(entries, cells, j, day, defaultRoom) ==
    IF cells = <<>> \/ j >= Len(timeSlots) THEN entries
    ELSE cells3(
           IF ~breakCell3(Head(cells)) /\ cellSubject(Head(cells)) # <<>>
           THEN Append(entries,
                   [day |-> day, time_slot |-> timeSlots[j + 1],
                    room_number |-> cellRoom(Head(cells), defaultRoom),
                    subject |-> cellSubject(Head(cells))])
           ELSE entries,
           Tail(cells), j + 1, day, defaultRoom)

RECURSIVE timetableLoop3(_, _, _)
timetableLoop3(entries, defaultRoom, lines) ==
    IF lines = <<>> THEN entries
    ELSE LET l == Head(lines)
         IN  IF roomHeaderMatch(l)
             THEN timetableLoop3(entries, roomHeaderNo(l), Tail(lines))
             ELSE IF ~dayMatch3(l) \/ defaultRoom = ""
             THEN timetableLoop3(entries, defaultRoom, Tail(lines))
             ELSE timetableLoop3(
                    cells3(entries, splitCells(restOfLine(l), <<>>), 0, dayOf3(l),
                           defaultRoom),
                    defaultRoom, Tail(lines))
parseTimetableText(text) == timetableLoop3(<<>>, "", text)

-----------------------------------------------------------------------------
(* The database (lines 31-60, 638-676) *)

\* the tables as one value
db ==
    [rooms |-> rooms_tbl, timetables |-> timetables, schedules |-> schedules,
     seq |-> seq]

\* a plain INSERT INTO rooms on a column that is not UNIQUE
insertRoom_NoIgnore(d, room_number, room_type) ==
    [d EXCEPT
       !.rooms = @ \cup {[id |-> d.seq.rooms + 1, room_number |-> room_number,
                          room_type |-> room_type]},
       !.seq.rooms = @ + 1]

\* INSERT OR IGNORE INTO rooms: room_number is UNIQUE
insertRoom(d, room_number, room_type) ==
    IF \E r \in d.rooms : r.room_number = room_number THEN d
    ELSE [d EXCEPT
            !.rooms = @ \cup {[id |-> d.seq.rooms + 1, room_number |-> room_number,
                               room_type |-> room_type]},
            !.seq.rooms = @ + 1]

\* INSERT INTO timetables; fields are the columns but filepath and uploaded_at
insertTimetable(d, fields) ==
    [d EXCEPT
       !.timetables = @ \cup {[id |-> d.seq.timetables + 1, row |-> fields]},
       !.seq.timetables = @ + 1]

\* INSERT INTO schedules
insertSchedule(d, timetable_id, e) ==
    [d EXCEPT
       !.schedules = @ \cup {[id |-> d.seq.schedules + 1, timetable_id |-> timetable_id,
                              day |-> e.day, time_slot |-> e.time_slot,
                              room_number |-> e.room_number, subject |-> e.subject]},
       !.seq.schedules = @ + 1]

\* /lab/i.test(room) ? 'lab' : 'classroom'
roomType(room) == IF room \in {"LAB1"} THEN "lab" ELSE "classroom"

-----------------------------------------------------------------------------
(* POST /api/upload, revisions 1 and 2 (lines 63-117, 339-393) *)

RECURSIVE insertRooms(_, _)
insertRooms(d, rooms) ==
    IF rooms = <<>> THEN d
    ELSE insertRooms(insertRoom(d, Head(rooms), roomType(Head(rooms))), Tail(rooms))

RECURSIVE insertEntries(_, _, _)
insertEntries(d, ttId, entries) ==
    IF entries = <<>> THEN d
    ELSE insertEntries(insertSchedule(d, ttId, Head(entries)), ttId, Tail(entries))

\* the body of the for loop over sections, for one section
uploadSection(d, sec, filename) ==
    LET d1 == insertRooms(d, sec.rooms)
        d2 == insertTimetable(d1,
                 [department |-> sec.department, year_sem |-> sec.year_sem,
                  section |-> sec.section, default_room |-> sec.default_room,
                  filename |-> filename])
    IN  insertEntries(d2, d2.seq.timetables, sec.entries)

\* the function given to db.transaction
RECURSIVE uploadSections(_, _, _)
uploadSections(d, sections, filename) ==
    IF sections = <<>> THEN d
    ELSE uploadSections(uploadSection(d, Head(sections), filename), Tail(sections),
                        filename)

RECURSIVE countEntries(_)
countEntries(sections) ==
    IF sections = <<>> THEN 0
    ELSE Len(Head(sections).entries) + countEntries(Tail(sections))

\* the store and the response of POST /api/upload; db.transaction(fn)() rolls
\* every insert back when one of them throws
upload(d, req, r) ==
    IF ~req.file
    THEN [db |-> d, response |-> [status |-> 400, error |-> "PDF file is required"]]
    ELSE IF ~req.decodable
    THEN [db |-> d, response |-> [status |-> 400, error |-> "Could not read PDF: "]]
    ELSE LET sections == parsePdf(r, req.text)
             d2 == uploadSections(d, sections, req.filename)
         IN  IF req.fail /\ sections # <<>>
             THEN [db |-> d, response |-> [status |-> 500, error |-> "Failed: "]]
             ELSE [db |-> d2,
                   response |->
                     [status |-> 200, sections |-> Len(sections),
                      total_entries |-> countEntries(sections),
                      total_rooms |-> d2.seq.rooms - d.seq.rooms]]

-----------------------------------------------------------------------------
(* POST /api/timetables, revision 3 (lines 719-764) *)

\* '[PDF could not be fully parsed: ' + pdfErr.message + ']'
NotParsedText == << <<"[PDF could not be fully parsed: ]">> >>

RECURSIVE insertRooms3(_, _)
insertRooms3(d, rooms) ==
    IF rooms = <<>> THEN d
    ELSE insertRooms3(insertRoom(d, Head(rooms).room_number, Head(rooms).room_type),
                      Tail(rooms))

\* the store and the response of POST /api/timetables: the timetable row, the
\* rooms and the schedule entries are three separate writes; req.fail names
\* the one whose insert throws
postTimetables(d, req) ==
    IF req.department = "" \/ req.year = "" \/ ~req.file
    THEN [db |-> d,
          response |-> [status |-> 400, error |-> "department, year, and pdf are required"]]
    ELSE LET rawText == IF req.decodable THEN req.text ELSE NotParsedText
             d1 == insertTimetable(d,
                      [department |-> req.department, year |-> req.year,
                       filename |-> req.filename, raw_text |-> rawText])
             rooms == parseRoomsPdf(rawText)
             d2 == insertRooms3(d1, rooms)
             entries == parseTimetableText(rawText)
             d3 == insertEntries(d2, d1.seq.timetables, entries)
             failed == [status |-> 500, error |-> "Failed: "]
         IN  IF req.fail = "timetable" THEN [db |-> d, response |-> failed]
             ELSE IF req.fail = "rooms" /\ rooms # <<>>
             THEN [db |-> d1, response |-> failed]
             ELSE IF req.fail = "schedules" /\ entries # <<>>
             THEN [db |-> d2, response |-> failed]
             ELSE [db |-> d3,
                   response |->
                     [status |-> 200, timetable_id |-> d1.seq.timetables,
                      entries_found |-> Len(entries),
                      rooms_added |-> d2.seq.rooms - d1.seq.rooms]]

-----------------------------------------------------------------------------
(* POST /api/schedules, revision 3 (lines 780-787) *)

\* the connection of new Database(...): better-sqlite3 opens it with foreign
\* key enforcement on, and no pragma of server.js turns it off
foreign_keys == TRUE

\* FOREIGN KEY (timetable_id) REFERENCES timetables(id)
foreignKeyOk(d, timetable_id) ==
    ~foreign_keys \/ \E t \in d.timetables : t.id = timetable_id

\* the handler on a connection that does not check the foreign key
postSchedules_NoForeignKey(d, req) ==
    IF req.timetable_id = 0 \/ req.day = "" \/ req.time_slot = ""
          \/ req.room_number = ""
    THEN [db |-> d,
          response |-> [status |-> 400,
                        error |-> "timetable_id, day, time_slot, room_number required"]]
    ELSE [db |-> insertSchedule(d, req.timetable_id, req),
          response |-> [status |-> 200, message |-> "Entry added"]]

\* the store and the response of POST /api/schedules; the insert throws when
\* the foreign key fails, and Express answers the uncaught error with 500
postSchedules(d, req) ==
    IF req.timetable_id = 0 \/ req.day = "" \/ req.time_slot = ""
          \/ req.room_number = ""
    THEN [db |-> d,
          response |-> [status |-> 400,
                        error |-> "timetable_id, day, time_slot, room_number required"]]
    ELSE IF ~foreignKeyOk(d, req.timetable_id)
    THEN [db |-> d, response |-> [status |-> 500, error |-> "SqliteError"]]
    ELSE [db |-> insertSchedule(d, req.timetable_id, req),
          response |-> [status |-> 200, message |-> "Entry added"]]

-----------------------------------------------------------------------------
(* DELETE /api/rooms/:id, DELETE /api/timetables/:id, GET /api/free-rooms *)

deleteRoom(d, id) == [d EXCEPT !.rooms = {r \in @ : r.id # id}]

\* the handler without its DELETE FROM schedules
deleteTimetable_KeepSchedules(d, id) ==
    [d EXCEPT !.timetables = {t \in @ : t.id # id}]

deleteTimetable(d, id) ==
    [d EXCEPT
       !.schedules = {e \in @ : e.timetable_id # id},
       !.timetables = {t \in @ : t.id # id}]

\* SQL LOWER() on the day names of the requests and the entries
LOWER(day) ==
    CASE day = "Monday" -> "monday"
      [] day = "Tuesday" -> "tuesday"
      [] day = "TUESDAY" -> "tuesday"
      [] day = "Saturday" -> "saturday"
      [] OTHER -> day

\* the query comparing the day as it is written
freeRooms_CaseSensitive(d, req) ==
    IF req.day = "" \/ req.time_slot = ""
    THEN [status |-> 400, error |-> "day and time_slot required"]
    ELSE LET occupied ==
                {e.room_number : e \in
                    {x \in d.schedules :
                        x.day = req.day /\ x.time_slot = req.time_slot}}
         IN  [status |-> 200, day |-> req.day, time_slot |-> req.time_slot,
              free_rooms |-> {r \in d.rooms : r.room_number \notin occupied},
              occupied_rooms |-> occupied]

\* lines 138-147
freeRooms(d, req) ==
    IF req.day = "" \/ req.time_slot = ""
    THEN [status |-> 400, error |-> "day and time_slot required"]
    ELSE LET occupied ==
                {e.room_number : e \in
                    {x \in d.schedules :
                        LOWER(x.day) = LOWER(req.day) /\ x.time_slot = req.time_slot}}
         IN  [status |-> 200, day |-> req.day, time_slot |-> req.time_slot,
              free_rooms |-> {r \in d.rooms : r.room_number \notin occupied},
              occupied_rooms |-> occupied]

-----------------------------------------------------------------------------
(* The requests *)

\* timetable rows ever inserted
MaxTimetables == 2

TextA ==
    << <<"IV", "SEMESTER", "[SECTION-A1]">>,
       <<"Room", "No:", "322">>,
       <<"tue", "CP", GAP, "B", GAP, "CN", "(R.No.605)">> >>
TextB ==
    << <<"Room", "No:", "322">>,
       <<"DEPARTMENT", "OF", "CSE">>,
       <<"VI", "SEMESTER", "[SECTION-B2]">>,
       <<"MON">>,
       <<"DSP", "LAB">>,
       <<"(R.No.605)">> >>
TextC ==
    << <<"IV", "SEMESTER", "[SECTION-A1]">>,
       <<"Room", "No:", "328">>,
       <<"MON", "CP", GAP, "CN">>,
       <<"VI", "SEMESTER", "[SECTION-B2]">>,
       <<"tue", "CP", GAP, "B", GAP, "CN", "(R.No.605)">> >>
UploadTexts == {<<>>, TextA, TextB, TextC}

UploadRequests ==
    {[op |-> "upload", file |-> FALSE, decodable |-> FALSE, text |-> <<>>,
      filename |-> "", fail |-> FALSE]}
    \cup {[op |-> "upload", file |-> TRUE, decodable |-> FALSE, text |-> <<>>,
           filename |-> "tt.pdf", fail |-> FALSE]}
    \cup {[op |-> "upload", file |-> TRUE, decodable |-> TRUE, text |-> t,
           filename |-> "tt.pdf", fail |-> f] : t \in UploadTexts, f \in BOOLEAN}

TimetableRequests ==
    {[op |-> "timetables", department |-> "", year |-> "II", file |-> TRUE,
      decodable |-> TRUE, text |-> TextA, filename |-> "tt.pdf", fail |-> "none"]}
    \cup {[op |-> "timetables", department |-> "CSE", year |-> "II", file |-> TRUE,
           decodable |-> FALSE, text |-> <<>>, filename |-> "tt.pdf", fail |-> f] :
             f \in {"none", "timetable"}}
    \cup {[op |-> "timetables", department |-> "CSE", year |-> "II", file |-> TRUE,
           decodable |-> TRUE, text |-> t, filename |-> "tt.pdf", fail |-> f] :
             t \in UploadTexts, f \in {"none", "timetable", "rooms", "schedules"}}

FreeRoomRequests ==
    {[op |-> "free-rooms", day |-> d, time_slot |-> ts, from |-> "", to |-> ""] :
        d \in {"", "Monday", "TUESDAY"}, ts \in {"", timeSlots[1], timeSlots[3]}}
    \cup {[op |-> "free-rooms", day |-> "Tuesday", time_slot |-> "",
           from |-> "11:10", to |-> "01:00"]}

\* schedule rows ever inserted, beyond which no row is added by hand
MaxScheduleRows == 2

\* the bodies of POST /api/schedules, for the timetable ids ids
ScheduleRequests(ids) ==
    {[op |-> "schedules", timetable_id |-> id, day |-> "Monday",
      time_slot |-> timeSlots[1], room_number |-> "322", subject |-> <<"SE">>] :
        id \in ids}
    \cup {[op |-> "schedules", timetable_id |-> 1, day |-> "",
           time_slot |-> timeSlots[1], room_number |-> "322", subject |-> <<"SE">>]}

-----------------------------------------------------------------------------
(* The handlers as actions *)

ParserIdle == UNCHANGED <<parserVars, returned>>

setDb(d) ==
    /\ rooms_tbl' = d.rooms
    /\ timetables' = d.timetables
    /\ schedules' = d.schedules
    /\ seq' = d.seq

Upload ==
    /\ rev \in {1, 2}
    /\ seq.timetables < MaxTimetables
    /\ \E req \in UploadRequests :
          /\ request' = req
          /\ setDb(upload(db, req, rev).db)
          /\ response' = upload(db, req, rev).response
    /\ ParserIdle

PostTimetables ==
    /\ rev = 3
    /\ seq.timetables < MaxTimetables
    /\ \E req \in TimetableRequests :
          /\ request' = req
          /\ setDb(postTimetables(db, req).db)
          /\ response' = postTimetables(db, req).response
    /\ ParserIdle

DeleteRoom ==
    /\ \E id \in 1..(seq.rooms + 1) :
          /\ request' = [op |-> "delete-room", id |-> id]
          /\ setDb(deleteRoom(db, id))
    /\ response' = [status |-> 200, message |-> "Deleted"]
    /\ ParserIdle

DeleteTimetable ==
    /\ \E id \in 1..(seq.timetables + 1) :
          /\ request' = [op |-> "delete-timetable", id |-> id]
          /\ setDb(deleteTimetable(db, id))
    /\ response' = [status |-> 200, message |-> "Deleted"]
    /\ ParserIdle

PostSchedules ==
    /\ rev = 3
    /\ seq.schedules < MaxScheduleRows
    /\ \E req \in ScheduleRequests(0..(seq.timetables + 1)) :
          /\ request' = req
          /\ setDb(postSchedules(db, req).db)
          /\ response' = postSchedules(db, req).response
    /\ ParserIdle

FreeRooms ==
    /\ \E req \in FreeRoomRequests :
          /\ request' = req
          /\ response' = freeRooms(db, req)
    /\ UNCHANGED <<rooms_tbl, timetables, schedules, seq>>
    /\ ParserIdle

StoreParserInit ==
    /\ rev \in {1, 2, 3}
    /\ pc = "done"
    /\ p = initLocals
    /\ line = NoLine
    /\ pending = NoLine

InitStore == StoreParserInit /\ StoreInit

NextStore ==
    \/ Upload
    \/ PostTimetables
    \/ DeleteRoom
    \/ DeleteTimetable
    \/ PostSchedules
    \/ FreeRooms

\* the server: its handlers run one at a time, in any order
SpecStore == InitStore /\ [][NextStore]_vars

-----------------------------------------------------------------------------
(* Steps of parsePdf, as the properties below name them *)

\* an iteration of the for loop that ends in a continue; line' is its line
LoopStep == pc = "loop" /\ pc' = "loop" /\ p'.i = p.i + 1
DeptStep == LoopStep /\ deptMatch(line')
SemStep == LoopStep /\ ~deptMatch(line') /\ semMatch(line')
RoomStep == LoopStep /\ ~deptMatch(line') /\ ~semMatch(line') /\ roomHeaderMatch(line')
\* the end of the text: the statements after the loop
FinishStep == pc = "loop" /\ pc' = "done"
\* the end of a day row: its lines become entries
RowStep == pc = "scan" /\ pc' = "loop"

\* the Section the locals describe
CurrentSection ==
    [department |-> p.department, year_sem |-> p.yearSem, section |-> p.section,
     default_room |-> p.defaultRoom, rooms |-> p.rooms, entries |-> p.entries]

\* the entries a step has added
NewEntries == SubSeq(p'.entries, Len(p.entries) + 1, Len(p'.entries))

Range(f) == {f[x] : x \in DOMAIN f}

-----------------------------------------------------------------------------
\* C1: every Section parsePdf emits has a non-empty section identifier and at
\* least one schedule entry.
C1_NoEmptySection ==
    \A k \in 1..Len(p.sections) :
        /\ p.sections[k].section # ""
        /\ Len(p.sections[k].entries) >= 1

\* parsePdf has returned two Sections
C1_Witness == pc = "done" /\ Len(p.sections) >= 2

\* C2: at a department header, at a semester/section header and at the end of
\* the text, the section in progress is appended to the output iff it has at
\* least one entry, and its entries are dropped; no other step changes the
\* output, so Sections come out one per header with entries, in document order.
C2_FlushRule ==
    [][ /\ (DeptStep \/ SemStep \/ FinishStep) =>
              p'.sections = IF p.inSection /\ Len(p.entries) >= 1
                            THEN Append(p.sections, CurrentSection)
                            ELSE p.sections
        /\ (DeptStep \/ SemStep) /\ p.inSection => p'.entries = <<>>
        /\ ~(DeptStep \/ SemStep \/ FinishStep) => p'.sections = p.sections
      ]_vars

\* section A1 was emitted with its entries, section B2, which had none, was not
C2_Witness ==
    /\ pc = "done"
    /\ Len(p.sections) = 1
    /\ p.sections[1].section = "A1"
    /\ p.inSection /\ p.section = "B2"

\* C7: department changes only at a DEPARTMENT OF line and default room only
\* at a Room No line (no header resets the default room); section and
\* year_sem are replaced exactly at a semester/section header; a Section is
\* emitted with the department and default room then in force.
C7_CarriedState ==
    [][ /\ DeptStep => p'.department = deptName(line')
        /\ ~DeptStep => p'.department = p.department
        /\ RoomStep => p'.defaultRoom = roomHeaderNo(line')
        /\ ~RoomStep => p'.defaultRoom = p.defaultRoom
        /\ SemStep => p'.section = semSection(line') /\ p'.yearSem = semYear(line')
        /\ ~SemStep => p'.section = p.section /\ p'.yearSem = p.yearSem
        /\ Len(p'.sections) > Len(p.sections) =>
              /\ p'.sections[Len(p'.sections)].department = p.department
              /\ p'.sections[Len(p'.sections)].default_room = p.defaultRoom
      ]_vars

\* a second Section emitted with the department and the default room of the
\* first, no department or room line having come between them
C7_Witness ==
    /\ Len(p.sections) = 2
    /\ p.sections[1].section # p.sections[2].section
    /\ p.sections[1].department # <<>>
    /\ p.sections[2].department = p.sections[1].department
    /\ p.sections[2].default_room = p.sections[1].default_room

\* C8: in every emitted Section, the default room and the room of every entry
\* are in the Section's rooms.
C8_RoomsComplete ==
    \A k \in 1..Len(p.sections) :
        LET s == p.sections[k]
        IN  /\ s.default_room \in Range(s.rooms)
            /\ \A e \in 1..Len(s.entries) :
                  s.entries[e].room_number \in Range(s.rooms)

\* the room numbers a per-cell override can give an entry: the input lines
\* use other numbers in (R.No.N) than in Room No
OverrideRooms == {"605", "802"}

\* C9: in every emitted Section, an entry without a per-cell room override has
\* the Section's default room.
C9_DefaultRoomOfEntries ==
    \A k \in 1..Len(p.sections) :
        LET s == p.sections[k]
        IN  \A e \in 1..Len(s.entries) :
                s.entries[e].room_number \notin OverrideRooms =>
                    s.entries[e].room_number = s.default_room

\* the {subject, room} pairs of the day row that is ending: revision 2's
\* slotEntries, revision 1's cells that are no break marker
C10_Pairs ==
    IF rev = 2
    THEN LET se == dayLines2([slotEntries |-> <<>>, rooms |-> <<>>],
                             p.dayLines, p.defaultRoom).slotEntries
         IN  [j \in 1..Len(se) |-> [subject |-> se[j].subject, room |-> se[j].room]]
    ELSE LET c == SelectSeq(splitCells(p.fullLine, <<>>), LAMBDA x : ~breakCell1(x))
         IN  [j \in 1..Len(c) |->
                [subject |-> cellSubject(c[j]), room |-> cellRoom(c[j], p.defaultRoom)]]

-----------------------------------------------------------------------------
(* Properties of the store *)

TablesUnchanged == UNCHANGED <<rooms_tbl, timetables, schedules>>

\* the step handles a request that uploads a document
UploadStep ==
    \/ request'.op = "upload" /\ request'.file
    \/ /\ request'.op = "timetables"
       /\ request'.file /\ request'.department # "" /\ request'.year # ""

\* C3: an upload is one atomic write: when an insert of the upload fails, no
\* room, timetable or schedule row of that upload stays stored.
C3_AtomicUpload ==
    [][ UploadStep /\ response'.status >= 400 => TablesUnchanged ]_vars

\* C4: the rooms table never holds two rows with the same room_number, and a
\* step that leaves a room number in the table leaves its row as it was.
C4_RoomsDeduplicated ==
    [][ /\ \A a, b \in rooms_tbl' : a.room_number = b.room_number => a = b
        /\ \A r \in rooms_tbl :
              (\E x \in rooms_tbl' : x.room_number = r.room_number) => r \in rooms_tbl'
      ]_vars

\* an upload has gone through whose rooms were all in the table already
C4_Witness ==
    /\ request.op \in {"upload", "timetables"}
    /\ response.status = 200
    /\ rooms_tbl # {}
    /\ Cardinality(timetables) >= 2
    /\ IF request.op = "upload"
       THEN response.sections >= 1 /\ response.total_rooms = 0
       ELSE response.entries_found >= 1 /\ response.rooms_added = 0

\* a clock time of a slot label or of a query, as <<hour, minute>>
ClockOf(t) ==
    CASE t = "09:00" -> <<9, 0>>
      [] t = "09:55" -> <<9, 55>>
      [] t = "10:50" -> <<10, 50>>
      [] t = "11:10" -> <<11, 10>>
      [] t = "12:05" -> <<12, 5>>
      [] t = "01:00" -> <<1, 0>>
      [] t = "02:15" -> <<2, 15>>
      [] t = "03:10" -> <<3, 10>>
      [] t = "04:05" -> <<4, 5>>
\* minutes since midnight, the hours 1 to 4 read as PM
MinutesOf(t) ==
    LET c == ClockOf(t)
    IN  (IF c[1] \in 1..4 THEN c[1] + 12 ELSE c[1]) * 60 + c[2]
SlotBounds ==
    << <<"09:00", "09:55">>, <<"09:55", "10:50">>, <<"11:10", "12:05">>,
       <<"12:05", "01:00">>, <<"02:15", "03:10">>, <<"03:10", "04:05">> >>
\* the canonical slots with slot.start < to and slot.end > from
OverlappingSlots(from, to) ==
    {timeSlots[k] : k \in
        {j \in 1..6 : /\ MinutesOf(SlotBounds[j][1]) < MinutesOf(to)
                      /\ MinutesOf(SlotBounds[j][2]) > MinutesOf(from)}}

\* C5: a free-room query for (day, from, to) answers with the rooms that have
\* no schedule entry on that day in any slot overlapping the range.
C5_RangeQuery ==
    [][ /\ request'.op = "free-rooms"
        /\ request'.day # "" /\ request'.from # "" /\ request'.to # ""
        => /\ response'.status = 200
           /\ response'.free_rooms =
                {r \in rooms_tbl :
                    ~\E e \in schedules :
                        /\ LOWER(e.day) = LOWER(request'.day)
                        /\ e.time_slot \in OverlappingSlots(request'.from, request'.to)
                        /\ e.room_number = r.room_number}
      ]_vars

\* C6: an upload whose document cannot be decoded into text is answered with
\* an error and a message, and stores no row.
C6_DecodeFailureIsFatal ==
    [][ UploadStep /\ ~request'.decodable
        => /\ response'.status >= 400
           /\ response'.error # ""
           /\ TablesUnchanged
      ]_vars

-----------------------------------------------------------------------------
(* Properties of the day lines of revision 2 *)

\* the day lines of the row that is ending, and those that are no room-only line
RowLines == p.dayLines
NoRoomLines(dls) == SelectSeq(dls, LAMBDA dl : ~pureRoomMatch(dl))
\* the {subject, room} pairs a sequence of day lines gives
PairsOf(dls) ==
    dayLines2([slotEntries |-> <<>>, rooms |-> <<>>], dls, p.defaultRoom).slotEntries
\* the number of pairs collected before day line k
PairsBefore(k) == Len(PairsOf(NoRoomLines(SubSeq(RowLines, 1, k - 1))))
\* the room-only lines that directly follow pair j
RoomLinesAfter(j) ==
    {k \in 1..Len(RowLines) : pureRoomMatch(RowLines[k]) /\ PairsBefore(k) = j}
Max(S) == CHOOSE x \in S : \A y \in S : x >= y

\* C11: a room-only line "(R.No.N)" among a day's lines gives no entry of its
\* own and changes the room of the entry directly before it to N, and nothing
\* else: the day has the entries it has without its room-only lines, but that
\* an entry followed by room-only lines has the room of the last of them.
C11_RoomOnlyLine ==
    [][ RowStep /\ rev = 2 =>
          LET without == mapSlots(p.day, PairsOf(NoRoomLines(RowLines)))
          IN  /\ Len(NewEntries) = Len(without)
              /\ \A j \in 1..Len(without) :
                    NewEntries[j] =
                      IF RoomLinesAfter(j) = {} THEN without[j]
                      ELSE [without[j] EXCEPT
                              !.room_number = RNo(RowLines[Max(RoomLinesAfter(j))][1])]
      ]_vars

\* a LAB subject has got its room from the room-only line after it
C11_Witness ==
    /\ rev = 2
    /\ \E j \in 1..Len(p.entries) :
          /\ p.entries[j].subject = <<"DSP", "LAB">>
          /\ p.entries[j].room_number = "605"
          /\ p.defaultRoom # "605"

-----------------------------------------------------------------------------
(* Properties of the continuation scan *)

\* the scan consumes lines[i + 1] as data of the day
ScanStep == pc = "scan" /\ pc' = "scan" /\ p'.i = p.i + 1
\* the line a ScanStep has added to the day's data, NoLine if it added none
ConsumedLine ==
    IF rev = 2
    THEN (IF Len(p'.dayLines) > Len(p.dayLines)
          THEN p'.dayLines[Len(p'.dayLines)] ELSE NoLine)
    ELSE SubSeq(p'.fullLine, Len(p.fullLine) + 1, Len(p'.fullLine))
\* the lines that end a day's data: a day abbreviation, a department or
\* semester/section header, a room header, a timestamp line, a line that
\* starts with a non-content keyword (the main loop of revision 2 lists them)
TerminatorLine(l) ==
    \/ dayMatch(l)
    \/ deptMatch(l)
    \/ semMatch(l)
    \/ roomHeaderMatch(l)
    \/ timeStampMatch(l)
    \/ rev = 2 /\ nonContentStart(l)
\* the main loop is about to read the line the scan stopped at
AtTerminator == pc = "loop" /\ pending \notin {NoLine, EOF}

\* C12: a terminator line is never consumed as data of the current day, and
\* the line the scan stopped at is the next line of the main loop, handled as
\* what it is: a header flushes the section, a day abbreviation starts a day.
C12_TerminatorNotConsumed ==
    [][ /\ ScanStep => ~TerminatorLine(ConsumedLine)
        /\ AtTerminator =>
              /\ line' = pending
              /\ deptMatch(pending) \/ semMatch(pending) =>
                    /\ LoopStep
                    /\ p'.sections = IF p.inSection /\ Len(p.entries) >= 1
                                      THEN Append(p.sections, CurrentSection)
                                      ELSE p.sections
              /\ /\ dayMatch(pending)
                 /\ ~deptMatch(pending) /\ ~semMatch(pending)
                 /\ ~roomHeaderMatch(pending)
                 => pc' = "scan" /\ p'.day = dayOf(pending) /\ p'.entries = p.entries
      ]_vars

-----------------------------------------------------------------------------
(* Properties of the entries of a Section *)

\* the subjects that span two slots: LAB as a word, QAVA, CP
MultiSlot(subject) ==
    \/ \E k \in 1..Len(subject) : toUpperCase(subject[k]) = "LAB"
    \/ subject \in {<<"QAVA">>, <<"CP">>}
SlotIndex(ts) == CHOOSE k \in 1..Len(timeSlots) : timeSlots[k] = ts
\* entry e of a Section is the copy of a multi-slot subject of the slot before
CopyOfPrevious(entries, e) ==
    \E o \in 1..Len(entries) :
        /\ MultiSlot(entries[o].subject)
        /\ entries[o].day = entries[e].day
        /\ SlotIndex(entries[o].time_slot) + 1 = SlotIndex(entries[e].time_slot)
        /\ entries[o].subject = entries[e].subject
        /\ entries[o].room_number = entries[e].room_number

\* C13: two entries of a Section emitted by revision 2 have the same day and
\* time slot only when one of them is the copy of a multi-slot subject into
\* the following slot.
C13_NoDuplicateSlots ==
    \A k \in 1..Len(p.sections) :
        LET entries == p.sections[k].entries
        IN  \A a, b \in 1..Len(entries) :
                /\ rev = 2
                /\ a # b
                /\ entries[a].day = entries[b].day
                /\ entries[a].time_slot = entries[b].time_slot
                => CopyOfPrevious(entries, a) \/ CopyOfPrevious(entries, b)

\* C14: a day row of revision 2 whose only pair is a multi-slot subject (a LAB
\* subject, QAVA, CP) gives two entries with that subject and room, at two consecutive
\* time slots.
C14_TwoHourSpan ==
    [][ RowStep /\ rev = 2 /\ Len(C10_Pairs) = 1 /\ MultiSlot(C10_Pairs[1].subject) =>
          /\ Len(NewEntries) = 2
          /\ NewEntries[1].subject = C10_Pairs[1].subject
          /\ NewEntries[2].subject = NewEntries[1].subject
          /\ NewEntries[2].room_number = NewEntries[1].room_number
          /\ NewEntries[2].day = NewEntries[1].day
          /\ SlotIndex(NewEntries[2].time_slot) = SlotIndex(NewEntries[1].time_slot) + 1
      ]_vars

-----------------------------------------------------------------------------
(* parsePdf called several times by one caller *)

\* calls of parsePdf
MaxCalls == 3

\* a text whose first day row comes before its Room No line
TextE ==
    << <<"IV", "SEMESTER", "[SECTION-A1]">>,
       <<"tue", "CP", GAP, "B", GAP, "CN", "(R.No.605)">>,
       <<"Room", "No:", "328">>,
       <<"MON">>,
       <<"DSP", "LAB">> >>
CallTexts == UploadTexts \cup {TextE}

\* const sections = parsePdf(rawText): the whole call; p holds the locals the
\* call ended with
Call ==
    /\ pc = "done"
    /\ Len(returned) < MaxCalls
    /\ \E text \in CallTexts :
          /\ p' = parseLoop(rev, initLocals, text)
          /\ returned' =
                Append(returned, [text |-> text, sections |-> parsePdf(rev, text)])
    /\ UNCHANGED <<rev, pc, line, pending, storeVars>>

CallsParserInit ==
    /\ rev \in {1, 2}
    /\ pc = "done"
    /\ p = initLocals
    /\ line = NoLine
    /\ pending = NoLine

InitCalls == CallsParserInit /\ StoreInit

NextCalls == Call

SpecCalls == InitCalls /\ [][NextCalls]_vars

-----------------------------------------------------------------------------
\* C16: no entry of an emitted Section and no stored schedule row has the day
\* Saturday, whatever day rows the text has.
C16_NoSaturday ==
    /\ \A k \in 1..Len(p.sections) :
          \A e \in 1..Len(p.sections[k].entries) :
              p.sections[k].entries[e].day # "Saturday"
    /\ \A row \in schedules : row.day # "Saturday"

-----------------------------------------------------------------------------
(* Break and lunch markers *)

\* BREAK, LUNCH and their letters
Marker(t) ==
    toUpperCase(t) \in
        {"BREAK", "LUNCH", "B", "R", "E", "A", "K", "L", "U", "N", "C", "H"}
Unmarked(l) == SelectSeq(l, LAMBDA t : ~Marker(t))
\* the day lines without their markers, a line of markers only left out
UnmarkedLines(dls) ==
    LET ls == [k \in 1..Len(dls) |-> Unmarked(dls[k])]
    IN  SelectSeq(ls, LAMBDA l : Words(l) # <<>>)
\* the entries the row that is ending gives when its markers are absent
EntriesWithoutMarkers ==
    IF rev = 2
    THEN mapSlots(p.day, PairsOf(UnmarkedLines(RowLines)))
    ELSE cells1(<<>>, splitCells(Unmarked(p.fullLine), <<>>), 0, p.day, p.defaultRoom)

\* C17: a break or lunch marker among the cells or the continuation lines of
\* a day row gives no entry and takes no time slot: the row gives the entries
\* it gives without its markers.
C17_MarkersSkipped ==
    [][ RowStep => NewEntries = EntriesWithoutMarkers ]_vars

-----------------------------------------------------------------------------
(* Entries and the header they belong to *)

\* C18: every entry of an emitted Section comes from a day row after that
\* Section's header: the section a semester/section header opens has no entry
\* yet (entries collected with no header active are not carried into it),
\* entries are added at day rows only, and a Section is emitted with the
\* entries collected under its header.
C18_EntriesAfterHeader ==
    [][ /\ SemStep => p'.entries = <<>>
        /\ ~RowStep => p'.entries \in {p.entries, <<>>}
        /\ Len(p'.sections) > Len(p.sections) =>
              /\ p.inSection
              /\ p'.sections[Len(p'.sections)].entries = p.entries
      ]_vars

-----------------------------------------------------------------------------
(* Inline room references *)

\* the { subject, room } pairs of a day line with inline room references: one
\* for each token that is no room reference, in order, with the room of the
\* reference that follows the token, the default room if none follows it
InlinePairs(dl, defaultRoom) ==
    LET w == Words(dl)
        subjectAt == {k \in 1..Len(w) : ~IsRoomRef(w[k])}
        nth(j) == CHOOSE k \in subjectAt :
                      Cardinality({m \in subjectAt : m < k}) = j - 1
    IN  [j \in 1..Cardinality(subjectAt) |->
            [subject |-> <<w[nth(j)]>>,
             room |-> IF nth(j) < Len(w) /\ IsRoomRef(w[nth(j) + 1])
                      THEN RNo(w[nth(j) + 1]) ELSE defaultRoom]]

\* C19: in a day line with an inline "(R.No.N)" reference the subject token
\* right before a reference gets room N and every other subject token the
\* default room, one pair for each subject token in order; a room reference,
\* a second one of the line too, is never the subject of an entry.
C19_InlineRoom ==
    [][ RowStep /\ rev = 2 =>
          /\ \A e \in 1..Len(NewEntries) :
                ~(Len(NewEntries[e].subject) = 1
                    /\ IsRoomRef(NewEntries[e].subject[1]))
          /\ Len(RowLines) = 1 /\ inlineRoomMatch(RowLines[1]) =>
                NewEntries = mapSlots(p.day, InlinePairs(RowLines[1], p.defaultRoom))
      ]_vars

-----------------------------------------------------------------------------
(* One forward pass *)

\* what strictly grows with every step of parsePdf
Progress ==
    2 * p.i + (CASE pc = "loop" -> 0 [] pc = "scan" -> 1 [] OTHER -> 2)

\* C20: parsePdf is one forward pass over the lines. The line index never
\* decreases and every step makes progress; an iteration of the main loop
\* and a step of the continuation scan each take one line, the next one, and
\* never the same line twice; the scan stops at a terminator or at the end of
\* the text, the line it stopped at is the line the main loop handles next,
\* and at the end of the text parsePdf returns.
C20_SingleForwardPass ==
    [][ /\ p'.i >= p.i
        /\ Progress' > Progress
        /\ pc = "loop" /\ pc' = "loop" =>
              /\ p'.i = p.i + 1
              /\ pending' = NoLine
              /\ pending # NoLine => line' = pending
        /\ pc = "loop" /\ pc' = "scan" =>
              /\ p'.i = p.i
              /\ pending' = NoLine
              /\ pending # NoLine => line' = pending
        /\ pc = "scan" /\ pc' = "scan" => p'.i = p.i + 1 /\ pending' = NoLine
        /\ RowStep =>
              /\ p'.i = p.i + 1
              /\ pending' = EOF \/ terminator(rev, pending')
        /\ pending = EOF => FinishStep
        /\ FinishStep => pending \in {NoLine, EOF} /\ p'.i = p.i
        /\ pc # "done"
      ]_vars

\* a text of six lines read to its end: a day row with a continuation line,
\* the header that ended its scan handled by the main loop, a second day row
C20_Witness ==
    /\ pc = "done"
    /\ p.i = 6
    /\ Len(p.sections) = 2
    /\ p.sections[1].entries[1].subject = <<"DSP", "LAB">>

-----------------------------------------------------------------------------
(* The store *)

\* C21: whatever uploads, deletions of timetables, deletions of rooms and
\* additions of schedule entries by hand have been made, the timetable_id of
\* every schedule row is the id of a row of timetables.
C21_NoOrphanSchedules ==
    \A e \in schedules : \E t \in timetables : t.id = e.timetable_id

\* an entry added by hand for a timetable that was deleted has been refused,
\* while the schedule rows of another timetable are in the store
C21_Witness ==
    /\ request.op = "schedules"
    /\ response.status = 500
    /\ request.timetable_id \in 1..seq.timetables
    /\ schedules # {}

\* C22: DELETE /api/timetables/:id removes the timetable row with that id and
\* the schedule rows with that timetable_id, and nothing else: the other
\* timetables, the schedule rows of the other timetables and the rooms stay
\* as they are, and an id no timetable has changes nothing.
C22_DeleteTimetableFrame ==
    [][ request'.op = "delete-timetable" =>
          /\ timetables' = {t \in timetables : t.id # request'.id}
          /\ schedules' = {e \in schedules : e.timetable_id # request'.id}
          /\ rooms_tbl' = rooms_tbl
          /\ (~\E t \in timetables : t.id = request'.id) => TablesUnchanged
      ]_vars

\* of two timetables one has been deleted with its schedule rows; the other
\* one, its schedule rows and the rooms are in the store
C22_Witness ==
    /\ request.op = "delete-timetable"
    /\ seq.timetables = 2
    /\ Cardinality(timetables) = 1
    /\ ~\E t \in timetables : t.id = request.id
    /\ schedules # {}
    /\ Cardinality(schedules) < seq.schedules
    /\ rooms_tbl # {}

\* the room numbers of a set of rows of rooms
RoomNumbers(rows) == {r.room_number : r \in rows}

\* C23: GET /api/free-rooms with a day and a time_slot answers, as free_rooms,
\* with the rows of rooms that have no schedule row of that day (upper or
\* lower case alike) and that time_slot; no room is both in free_rooms and in
\* occupied_rooms, and every row of rooms is in one of the two.
C23_FreeRooms ==
    [][ request'.op = "free-rooms" /\ request'.day # "" /\ request'.time_slot # ""
        => /\ response'.status = 200
           /\ response'.free_rooms =
                {r \in rooms_tbl :
                    ~\E e \in schedules :
                        /\ LOWER(e.day) = LOWER(request'.day)
                        /\ e.time_slot = request'.time_slot
                        /\ e.room_number = r.room_number}
           /\ RoomNumbers(response'.free_rooms) \cap response'.occupied_rooms = {}
           /\ \A r \in rooms_tbl :
                 (r \in response'.free_rooms)
                    # (r.room_number \in response'.occupied_rooms)
      ]_vars

\* after an upload and the deletion of a room, a query for TUESDAY, the day
\* stored as Tuesday, has found a free room and an occupied one
C23_Witness ==
    /\ request.op = "free-rooms"
    /\ request.day = "TUESDAY"
    /\ response.status = 200
    /\ response.free_rooms # {}
    /\ response.occupied_rooms # {}
    /\ Cardinality(rooms_tbl) < seq.rooms

====
